---- MODULE Spec2Model ----
(***************************************************************************)
(* Model of src/app.py (task manager): the urgency scorer                  *)
(* calculate_urgency, the task handlers add_category, add_task,            *)
(* toggle_task and tasks, and the background thread overdue_checker,       *)
(* over the SQLite tables categories and tasks; and the group handlers     *)
(* create_group, invite and invite_action over the tables groups,          *)
(* group_members and group_invites.                                        *)
(*                                                                         *)
(* Conventions.  A calendar date is an integer day number.  A stored       *)
(* deadline is a record [kind, day]: the text the form sent and the date   *)
(* it spells.  The kinds are the texts SQLite's date() and Python's        *)
(* strptime('%Y-%m-%d') read differently:                                  *)
(*   "null"      no form field (None, stored as NULL)                      *)
(*   "empty"     ''                                                        *)
(*   "iso"       'YYYY-MM-DD'                  (both parse it)             *)
(*   "datetime"  'YYYY-MM-DD HH:MM'            (only date() parses it)     *)
(*   "loose"     'YYYY-M-D', no zero padding   (only strptime parses it)   *)
(*   "text"      any other text, 'soon'        (neither parses it)         *)
(* A text that SQLite stores as a number ('20240105') is none of them.      *)
(* Every row of tasks and categories belongs to one logged-in user.  The    *)
(* group handlers are called by the users of the set Users, whose          *)
(* accounts exist from the start; a user's id stands for the username.     *)
(* delete_task and delete_category are not part of the model: rows are     *)
(* added and changed, never removed.                                       *)
(***************************************************************************)
EXTENDS Integers, Sequences, FiniteSets, TLC

VARIABLES
    tasks,       \* table tasks, committed state: row id |-> row
    categories,  \* table categories, committed state: row id |-> weight
    today,       \* the wall clock's UTC date, what date('now') returns
    skew,        \* date.today() - date('now'): the server's local date offset
    ck_pc,       \* overdue_checker: position in the loop body
    ck_tx,       \* overdue_checker: table tasks as its open transaction sees it
    ck_d1,       \* overdue_checker: date('now') as the first UPDATE read it
    ck_d2,       \* overdue_checker: date('now') as the second UPDATE read it
    ck_last,     \* overdue_checker: how the last finished cycle ended
    tg,          \* toggle_task requests in flight: request |-> position and locals
    fetched,     \* tasks(): rows of the last query, in the order returned
    task_list,   \* tasks(), dashboard(): the task list last handed to the template
    urgency_scores, \* stats_urgency(): the scores of the last request
    score_arg,   \* calculate_urgency: the argument of the call under test
    score_ret,   \* calculate_urgency: what that call returned
    groups,        \* table groups, committed state: group id |-> owner_id
    group_members, \* table group_members, committed state: set of rows
    group_invites, \* table group_invites, committed state: invite id |-> row
    inv,         \* invite requests in flight: request |-> position and locals
    act          \* invite_action requests in flight: request |-> position and locals

vars == <<tasks, categories, today, skew, ck_pc, ck_tx, ck_d1, ck_d2, ck_last,
          tg, fetched, task_list, urgency_scores, score_arg, score_ret,
          groups, group_members, group_invites, inv, act>>

dbVars    == <<tasks, categories>>
clockVars == <<today, skew>>
ckVars    == <<ck_pc, ck_tx, ck_d1, ck_d2, ck_last>>
listVars  == <<fetched, task_list, urgency_scores>>
scoreVars == <<score_arg, score_ret>>
grpVars   == <<groups, group_members, group_invites, inv, act>>
taskVars  == <<dbVars, clockVars, ckVars, tg, listVars, scoreVars>>

(***************************************************************************)
(* Bounds                                                                  *)
(***************************************************************************)
MaxTasks == 2        \* rows of table tasks
MaxCategories == 1   \* rows of table categories
MaxGroups == 1       \* rows of table groups
MaxInvites == 3      \* rows of table group_invites

NoRows == << >>

(***************************************************************************)
(* Deadlines and the two date parsers                                      *)
(***************************************************************************)
Deadline(k, d) == [kind |-> k, day |-> d]
NoDeadline     == Deadline("null", 0)
EmptyDeadline  == Deadline("empty", 0)
TextDeadline   == Deadline("text", 0)

\* SQLite NULL is the empty tuple, a value v is <<v>>.
Null == << >>
Val(v) == <<v>>

\* date(deadline) in SQLite: NULL unless the text starts with a zero-padded
\* YYYY-MM-DD, optionally followed by a time.
SqlDate(dl) ==
    IF dl.kind \in {"iso", "datetime"} THEN Val(dl.day) ELSE Null

\* Mutant of SqlLess: NULL taken as the earliest date.
SqlLess_NullFirst(a, b) == b # Null /\ (a = Null \/ a[1] < b[1])

\* a < b and a >= b in a WHERE clause: a comparison with NULL is not true.
SqlLess(a, b) == a # Null /\ b # Null /\ a[1] < b[1]
SqlGeq(a, b)  == a # Null /\ b # Null /\ a[1] >= b[1]

\* datetime.strptime(deadline_str, '%Y-%m-%d').date(): month and day may be
\* unpadded, nothing may follow the day; otherwise ValueError (Null).
PyDate(dl) ==
    IF dl.kind \in {"iso", "loose"} THEN Val(dl.day) ELSE Null

\* Python truthiness of the stored deadline: None and '' are falsy.
Falsy(dl) == dl.kind \in {"null", "empty"}

\* date.today(): the server's local date.
PyToday == today + skew

(***************************************************************************)
(* calculate_urgency                                                       *)
(***************************************************************************)
Priorities == {"High", "Medium", "Low"}
Risks      == {"Critical", "Important", "Normal"}

priority_weights == [High |-> 5, Medium |-> 3, Low |-> 1]
risk_weights     == [Critical |-> 5, Important |-> 3, Normal |-> 1]

FarFuture == 999

\* dict.get(key, default)
Get(d, key, default) == IF key \in DOMAIN d THEN d[key] ELSE default

Max(a, b) == IF a >= b THEN a ELSE b

\* Lines 161-169: the days from today to the deadline.
days_until(task) ==
    LET deadline_str == Get(task, "deadline", NoDeadline)
    IN  IF Falsy(deadline_str) THEN FarFuture
        ELSE IF PyDate(deadline_str) = Null THEN FarFuture
        ELSE PyDate(deadline_str)[1] - PyToday

\* Mutant of deadline_score: no branch for a deadline that has passed.
deadline_score_Linear(days) == Max(0, 10 - days) * 4

deadline_score(days) ==
    IF days >= 0 THEN Max(0, 10 - days) * 4 ELSE 10 * 4

calculate_urgency(task) ==
    LET priority == Get(task, "priority", "Low")
        risk     == Get(task, "risk", "Normal")
        weight   == Get(task, "weight", 1)
        priority_score == Get(priority_weights, priority, 1) * 3
        risk_score     == Get(risk_weights, risk, 1) * 3
        category_score == weight * 2
    IN  priority_score + risk_score + category_score
            + deadline_score(days_until(task))

(***************************************************************************)
(* Table rows                                                              *)
(***************************************************************************)
\* INSERT INTO tasks (...): completed and overdue take their DEFAULT 0.
\* category_id 0 stands for NULL (AUTOINCREMENT ids start at 1).
NewTask(category_id, priority, risk, deadline) ==
    [category_id |-> category_id, priority |-> priority, risk |-> risk,
     deadline |-> deadline, completed |-> 0, overdue |-> 0]

\* overdue_checker holds the database's write lock, from its first UPDATE
\* to its commit or close: no other connection can write.  A handler's
\* INSERT or UPDATE and its commit are one step here, so a handler holds
\* the lock in no state.
CheckerHoldsLock == ck_pc \in {"upd1", "upd2"}

(***************************************************************************)
(* State after init_db() on a new database file and the start of the       *)
(* overdue_checker thread                                                  *)
(***************************************************************************)
Requests == {1}      \* toggle_task requests in flight at once, next to the sweep
RaceRequests == {1, 2}  \* toggle_task requests in flight at once, among themselves

Idle == [pc |-> "idle", task_id |-> 0, new_status |-> 0]

InviteRequests == {1, 2}   \* invite requests that may be in flight at once
ActionRequests == {1, 2}   \* invite_action requests that may be in flight at once

\* A handler that is not running: its locals have no value.
IdleInvite == [pc |-> "idle", group_id |-> 0, user_id |-> 0, username |-> 0,
               user |-> Null, existing |-> Null, pending |-> Null]
IdleAction == [pc |-> "idle", invite_id |-> 0, user_id |-> 0, invite |-> Null]

Init ==
    /\ tasks = NoRows
    /\ categories = NoRows
    /\ today = 0
    /\ skew = 0
    /\ ck_pc = "start"
    /\ ck_tx = NoRows
    /\ ck_d1 = Null
    /\ ck_d2 = Null
    /\ ck_last = "none"
    /\ tg = [r \in RaceRequests |-> Idle]
    /\ fetched = << >>
    /\ task_list = << >>
    /\ urgency_scores = << >>
    /\ score_arg = << >>
    /\ score_ret = Null
    /\ groups = NoRows
    /\ group_members = {}
    /\ group_invites = NoRows
    /\ inv = [r \in InviteRequests |-> IdleInvite]
    /\ act = [r \in ActionRequests |-> IdleAction]

(***************************************************************************)
(* The wall clock.  date('now') and date.today() read the system clock,    *)
(* which an operator or NTP may set to any date, also an earlier one; the  *)
(* local date is the UTC date or a neighbour of it.                        *)
(***************************************************************************)
ClockSet(d, s) ==
    /\ <<d, s>> # <<today, skew>>
    /\ today' = d
    /\ skew' = s
    /\ UNCHANGED <<dbVars, ckVars, tg, listVars, scoreVars, grpVars>>

(***************************************************************************)
(* add_category                                                            *)
(***************************************************************************)
add_category(name, weight) ==
    /\ ~CheckerHoldsLock
    /\ categories' = IF name # "" THEN Append(categories, weight)
                                  ELSE categories
    /\ UNCHANGED <<tasks, clockVars, ckVars, tg, listVars, scoreVars, grpVars>>

(***************************************************************************)
(* add_task.  A priority or risk outside the column's CHECK list makes     *)
(* the INSERT raise IntegrityError: nothing is stored.                     *)
(***************************************************************************)
add_task(title, category_id, priority, risk, deadline) ==
    /\ ~CheckerHoldsLock
    /\ tasks' = IF title # "" /\ priority \in Priorities /\ risk \in Risks
                 THEN Append(tasks, NewTask(category_id, priority, risk, deadline))
                 ELSE tasks
    /\ UNCHANGED <<categories, clockVars, ckVars, tg, listVars, scoreVars, grpVars>>

(***************************************************************************)
(* toggle_task, statement by statement: the SELECT, then the UPDATE with   *)
(* its commit.                                                             *)
(***************************************************************************)
\* Lines 354-358: SELECT completed ...; new_status = 1 if it is 0 else 0.
ToggleSelect(r, task_id) ==
    /\ tg[r].pc = "idle"
    /\ task_id \in DOMAIN tasks
    /\ tg' = [tg EXCEPT ![r] =
                [pc |-> "update", task_id |-> task_id,
                 new_status |-> IF tasks[task_id].completed = 0 THEN 1 ELSE 0]]
    /\ UNCHANGED <<dbVars, clockVars, ckVars, listVars, scoreVars, grpVars>>

\* Mutant of SetCompleted: completing a task also clears its overdue flag.
SetCompleted_ClearsOverdue(rows, task_id, new_status) ==
    [rows EXCEPT ![task_id].completed = new_status,
                 ![task_id].overdue = IF new_status = 1 THEN 0 ELSE @]

\* UPDATE tasks SET completed=? WHERE id=?
SetCompleted(rows, task_id, new_status) ==
    [rows EXCEPT ![task_id].completed = new_status]

\* Lines 359-360.
ToggleUpdate(r) ==
    /\ tg[r].pc = "update"
    /\ ~CheckerHoldsLock
    /\ tasks' = SetCompleted(tasks, tg[r].task_id, tg[r].new_status)
    /\ tg' = [tg EXCEPT ![r] = Idle]
    /\ UNCHANGED <<categories, clockVars, ckVars, listVars, scoreVars, grpVars>>

\* The UPDATE finds the database locked for longer than the connection's
\* timeout and raises OperationalError: the request ends without a write.
ToggleBusy(r) ==
    /\ tg[r].pc = "update"
    /\ CheckerHoldsLock
    /\ tg' = [tg EXCEPT ![r] = Idle]
    /\ UNCHANGED <<dbVars, clockVars, ckVars, listVars, scoreVars, grpVars>>

(***************************************************************************)
(* overdue_checker                                                         *)
(***************************************************************************)
\* Mutant of MarkOverdue: a task is marked a day late, when its deadline
\* is before yesterday.
MarkOverdue_DayLate(rows, now) ==
    [i \in DOMAIN rows |->
        IF /\ rows[i].completed = 0
           /\ SqlLess(SqlDate(rows[i].deadline), Val(now - 1))
           /\ rows[i].overdue = 0
        THEN [rows[i] EXCEPT !.overdue = 1]
        ELSE rows[i]]

\* Mutant of MarkOverdue: the WHERE clause lacks completed=0.
MarkOverdue_AnyStatus(rows, now) ==
    [i \in DOMAIN rows |->
        IF /\ SqlLess(SqlDate(rows[i].deadline), Val(now))
           /\ rows[i].overdue = 0
        THEN [rows[i] EXCEPT !.overdue = 1]
        ELSE rows[i]]

\* Lines 727-733: UPDATE tasks SET overdue=1 WHERE completed=0
\*                AND date(deadline) < date('now') AND overdue=0
MarkOverdue(rows, now) ==
    [i \in DOMAIN rows |->
        IF /\ rows[i].completed = 0
           /\ SqlLess(SqlDate(rows[i].deadline), Val(now))
           /\ rows[i].overdue = 0
        THEN [rows[i] EXCEPT !.overdue = 1]
        ELSE rows[i]]

\* A sweep whose second UPDATE is left out: no flag is ever cleared.
ClearOverdue_Never(rows, now) == rows

\* Mutant of ClearOverdue: date(deadline) > date('now') for >=.
ClearOverdue_Strict(rows, now) ==
    [i \in DOMAIN rows |->
        IF /\ rows[i].completed = 0
           /\ SqlLess(Val(now), SqlDate(rows[i].deadline))
           /\ rows[i].overdue = 1
        THEN [rows[i] EXCEPT !.overdue = 0]
        ELSE rows[i]]

\* Lines 735-741: UPDATE tasks SET overdue=0 WHERE completed=0
\*                AND date(deadline) >= date('now') AND overdue=1
ClearOverdue(rows, now) ==
    [i \in DOMAIN rows |->
        IF /\ rows[i].completed = 0
           /\ SqlGeq(SqlDate(rows[i].deadline), Val(now))
           /\ rows[i].overdue = 1
        THEN [rows[i] EXCEPT !.overdue = 0]
        ELSE rows[i]]

\* Mutant of AfterClose: a connection in autocommit mode, every statement
\* is persisted as it runs.
AfterClose_Autocommit(committed, uncommitted) == uncommitted

\* What closing the connection without a commit leaves in the database:
\* the open transaction is rolled back.
AfterClose(committed, uncommitted) == committed

\* How a finished cycle is recorded: "recovered" is a committed cycle that
\* follows a failed one.
Outcome(ok) ==
    IF ~ok THEN "failed"
    ELSE IF ck_last \in {"failed"} THEN "recovered" ELSE "committed"

\* Lines 725-733: get_db() and the first UPDATE, which opens the
\* transaction and takes the write lock.
CkUpdate1 ==
    /\ ck_pc = "start"
    /\ ck_tx' = MarkOverdue(tasks, today)
    /\ ck_d1' = Val(today)
    /\ ck_pc' = "upd1"
    /\ UNCHANGED <<dbVars, clockVars, ck_d2, ck_last, tg, listVars, scoreVars, grpVars>>

\* Lines 735-741.
CkUpdate2 ==
    /\ ck_pc = "upd1"
    /\ ck_tx' = ClearOverdue(ck_tx, today)
    /\ ck_d2' = Val(today)
    /\ ck_pc' = "upd2"
    /\ UNCHANGED <<dbVars, clockVars, ck_d1, ck_last, tg, listVars, scoreVars, grpVars>>

\* Line 743, then close_db() and time.sleep(3600).
CkCommit ==
    /\ ck_pc = "upd2"
    /\ tasks' = ck_tx
    /\ ck_tx' = NoRows
    /\ ck_last' = Outcome(TRUE)
    /\ ck_pc' = "sleep"
    /\ UNCHANGED <<categories, clockVars, ck_d1, ck_d2, tg, listVars, scoreVars, grpVars>>

\* Mutant of AfterException: the exception is not caught, the thread ends.
AfterException_Dies == "dead"

\* Where the thread goes when a statement of the try block raises:
\* except Exception (line 744) and on to time.sleep (line 747).
AfterException == "sleep"

\* Lines 744-747: get_db(), an UPDATE or the commit raises.  Leaving the
\* app context runs close_db(): the connection is closed uncommitted.
CkFail ==
    /\ ck_pc \in {"start", "upd1", "upd2"}
    /\ tasks' = AfterClose(tasks, IF ck_pc = "start" THEN tasks ELSE ck_tx)
    /\ ck_tx' = NoRows
    /\ UNCHANGED <<ck_d1, ck_d2>>
    /\ ck_last' = Outcome(FALSE)
    /\ ck_pc' = AfterException
    /\ UNCHANGED <<categories, clockVars, tg, listVars, scoreVars, grpVars>>

\* time.sleep(3600) returns: the next iteration of while True, which has
\* read no date yet.
CkSleep ==
    /\ ck_pc = "sleep"
    /\ ck_pc' = "start"
    /\ ck_d1' = Null
    /\ ck_d2' = Null
    /\ UNCHANGED <<dbVars, clockVars, ck_tx, ck_last, tg, listVars, scoreVars, grpVars>>

(***************************************************************************)
(* The queries of tasks(), dashboard() and stats_urgency()                 *)
(***************************************************************************)
\* IFNULL(c.weight, 1) over LEFT JOIN categories c ON t.category_id = c.id
JoinedWeight(category_id) ==
    IF category_id \in DOMAIN categories THEN categories[category_id] ELSE 1

\* dict(task): the row of tasks with id i, joined with its category.
RowDict(i) ==
    [id |-> i, category_id |-> tasks[i].category_id,
     priority |-> tasks[i].priority, risk |-> tasks[i].risk,
     deadline |-> tasks[i].deadline, completed |-> tasks[i].completed,
     overdue |-> tasks[i].overdue,
     weight |-> JoinedWeight(tasks[i].category_id)]

\* Lines 280-293: the WHERE clause that the filters of tasks() build.
\* priority_filter is '' or a priority; category_filter is Null for '' or
\* Val(id).
Matches(row, status_filter, priority_filter, category_filter) ==
    /\ CASE status_filter = "pending"   -> row.completed = 0
          [] status_filter = "completed" -> row.completed = 1
          [] status_filter = "overdue"   -> row.completed = 0 /\ row.overdue = 1
          [] OTHER -> TRUE
    /\ priority_filter # "" => row.priority = priority_filter
    /\ category_filter # Null =>
          (row.category_id # 0 /\ row.category_id = category_filter[1])

\* deadline ASC puts a before b whatever the texts are: NULL sorts first,
\* then '' before every other text, and texts that start with a padded
\* date by that date, the bare date before the date with a time.  The
\* order of the other pairs depends on the characters of the texts, which
\* the model does not hold: either order may come back.
DeadlineBefore(a, b) ==
    \/ a.kind = "null" /\ b.kind # "null"
    \/ a.kind = "empty" /\ b.kind \notin {"null", "empty"}
    \/ /\ a.kind \in {"iso", "datetime"} /\ b.kind \in {"iso", "datetime"}
       /\ \/ a.day < b.day
          \/ a.day = b.day /\ a.kind = "iso" /\ b.kind = "datetime"

\* ORDER BY t.completed ASC, t.deadline ASC puts x before y.
OrderedBefore(x, y) ==
    \/ x.completed < y.completed
    \/ x.completed = y.completed /\ DeadlineBefore(x.deadline, y.deadline)

\* The orders in which a query may return the rows with the ids in S:
\* all of them without ORDER BY, those the ORDER BY allows with it (rows
\* that it does not order come back in either order).
Orders(S, ordered) ==
    {o \in [1..Cardinality(S) -> S] :
        /\ \A i, j \in DOMAIN o : i # j => o[i] # o[j]
        /\ ordered =>
              \A i, j \in DOMAIN o :
                  i < j => ~OrderedBefore(RowDict(o[j]), RowDict(o[i]))}

\* task_dict['urgency'] = calculate_urgency(task_dict)
Scored(task_dict) ==
    [id |-> task_dict.id, category_id |-> task_dict.category_id,
     priority |-> task_dict.priority, risk |-> task_dict.risk,
     deadline |-> task_dict.deadline, completed |-> task_dict.completed,
     overdue |-> task_dict.overdue, weight |-> task_dict.weight,
     urgency |-> calculate_urgency(task_dict)]

\* Mutant of sort_key: the sign is missing, least urgent first.
sort_key_Ascending(x) == x.urgency

\* key=lambda x: -x['urgency']
sort_key(x) == 0 - x.urgency

\* list.sort(key=sort_key): ascending in the key, stable.
RECURSIVE Insert(_, _)
Insert(sorted, x) ==
    IF sorted = << >> THEN <<x>>
    ELSE IF sort_key(sorted[Len(sorted)]) <= sort_key(x) THEN Append(sorted, x)
    ELSE Append(Insert(SubSeq(sorted, 1, Len(sorted) - 1), x), sorted[Len(sorted)])

RECURSIVE Sort(_)
Sort(s) ==
    IF s = << >> THEN << >>
    ELSE Insert(Sort(SubSeq(s, 1, Len(s) - 1)), s[Len(s)])

\* Lines 299-311 of tasks(): score every row, sort the pending ones by
\* urgency and put the completed ones after them.
RankTasks(rows) ==
    LET scored == [k \in DOMAIN rows |-> Scored(rows[k])]
        pending_tasks   == SelectSeq(scored, LAMBDA t : t.completed = 0)
        completed_tasks == SelectSeq(scored, LAMBDA t : t.completed = 1)
    IN  Sort(pending_tasks) \o completed_tasks

\* tasks(): GET /tasks with its three filters; order is an order in which
\* the query may return the rows.
tasks_view(status_filter, priority_filter, category_filter) ==
    \E order \in Orders({i \in DOMAIN tasks :
                            Matches(RowDict(i), status_filter, priority_filter,
                                    category_filter)}, TRUE) :
        /\ fetched' = [k \in DOMAIN order |-> RowDict(order[k])]
        /\ task_list' = RankTasks(fetched')
        /\ urgency_scores' = << >>
        /\ UNCHANGED <<dbVars, clockVars, ckVars, tg, scoreVars, grpVars>>

TopTasks == 5

\* dashboard(): lines 380-394, the five most urgent pending tasks.
dashboard ==
    \E order \in Orders({i \in DOMAIN tasks : tasks[i].completed = 0}, FALSE) :
        /\ fetched' = [k \in DOMAIN order |-> RowDict(order[k])]
        /\ LET sorted == Sort([k \in DOMAIN order |-> Scored(fetched'[k])])
           IN  task_list' = SubSeq(sorted, 1, IF Len(sorted) < TopTasks
                                              THEN Len(sorted) ELSE TopTasks)
        /\ urgency_scores' = << >>
        /\ UNCHANGED <<dbVars, clockVars, ckVars, tg, scoreVars, grpVars>>

\* stats_urgency(): lines 479-490, the score of every task of the user.
stats_urgency ==
    \E order \in Orders(DOMAIN tasks, FALSE) :
        /\ fetched' = [k \in DOMAIN order |-> RowDict(order[k])]
        /\ urgency_scores' =
              [k \in DOMAIN order |-> calculate_urgency(fetched'[k])]
        /\ task_list' = << >>
        /\ UNCHANGED <<dbVars, clockVars, ckVars, tg, scoreVars, grpVars>>

\* A call calculate_urgency(score_arg).
score_call ==
    /\ score_ret = Null
    /\ score_ret' = Val(calculate_urgency(score_arg))
    /\ UNCHANGED <<dbVars, clockVars, ckVars, tg, listVars, score_arg, grpVars>>

(***************************************************************************)
(* Spec: the reconciler with the requests that write table tasks           *)
(***************************************************************************)
SweepDays      == {0, 1, 2}     \* dates the clock shows
SweepDeadlines ==
    {NoDeadline, TextDeadline} \cup {Deadline("iso", d) : d \in {0, 1}}

Next ==
    \/ \E d \in SweepDays : ClockSet(d, 0)
    \/ /\ Len(tasks) < MaxTasks
       /\ \E dl \in SweepDeadlines : add_task("t", 0, "Medium", "Normal", dl)
    \/ \E r \in Requests, id \in 1..MaxTasks : ToggleSelect(r, id)
    \/ \E r \in Requests : ToggleUpdate(r)
    \/ \E r \in Requests : ToggleBusy(r)
    \/ CkUpdate1
    \/ CkUpdate2
    \/ CkCommit
    \/ CkFail
    \/ CkSleep

Spec == Init /\ [][Next]_vars

(***************************************************************************)
(* SpecScore: calls of calculate_urgency on dicts of every shape           *)
(***************************************************************************)
MaxAhead == 12       \* the latest deadline, in days after today
MaxLate  == 30       \* the earliest deadline, in days before today

ScoreDays == (0 - MaxLate)..MaxAhead
ScoreDeadlines ==
    {NoDeadline, EmptyDeadline, TextDeadline}
        \cup {Deadline(k, d) : k \in {"iso", "loose", "datetime"}, d \in ScoreDays}

\* None where the key holds NULL; "Urgent" and "Severe" are values outside
\* the weight tables.
ScorePriorities == Priorities \cup {"Urgent", "None"}
ScoreRisks      == Risks \cup {"Severe", "None"}
ScoreWeights    == {0 - 2, 0, 1, 3}

\* The dict with the given keys; Null leaves the key out.
Dict(priority, risk, weight, deadline) ==
    [k \in {key \in {"priority", "risk", "weight", "deadline"} :
              CASE key = "priority" -> priority # Null
                [] key = "risk"     -> risk # Null
                [] key = "weight"   -> weight # Null
                [] OTHER            -> deadline # Null} |->
        CASE k = "priority" -> priority[1]
          [] k = "risk"     -> risk[1]
          [] k = "weight"   -> weight[1]
          [] OTHER          -> deadline[1]]

Opt(S) == {Null} \cup {Val(x) : x \in S}

ScoreArgs ==
    {Dict(p, r, w, dl) : p \in Opt(ScorePriorities), r \in Opt(ScoreRisks),
                         w \in Opt(ScoreWeights), dl \in Opt(ScoreDeadlines)}

ScoreInit ==
    /\ tasks = NoRows
    /\ categories = NoRows
    /\ today = 0
    /\ skew = 0
    /\ ck_pc = "start"
    /\ ck_tx = NoRows
    /\ ck_d1 = Null
    /\ ck_d2 = Null
    /\ ck_last = "none"
    /\ tg = [r \in RaceRequests |-> Idle]
    /\ fetched = << >>
    /\ task_list = << >>
    /\ urgency_scores = << >>
    /\ score_arg \in ScoreArgs
    /\ score_ret = Null
    /\ groups = NoRows
    /\ group_members = {}
    /\ group_invites = NoRows
    /\ inv = [r \in InviteRequests |-> IdleInvite]
    /\ act = [r \in ActionRequests |-> IdleAction]

ScoreNext == score_call

SpecScore == ScoreInit /\ [][ScoreNext]_vars

(***************************************************************************)
(* SpecView: categories, tasks in them, and the three handlers that score  *)
(* the stored tasks.  A response is observed once: no request follows it.  *)
(***************************************************************************)
ViewWeights    == {0 - 4, 0, 2}     \* int(request.form.get('weight', 1))
ViewPriorities == {"Low", "High"}
ViewDeadlines  == {NoDeadline, Deadline("iso", 0)}

NoResponse == fetched = << >> /\ task_list = << >> /\ urgency_scores = << >>

ViewNext ==
    \/ /\ NoResponse
       /\ Len(categories) < MaxCategories
       /\ \E name \in {"", "c"}, w \in ViewWeights : add_category(name, w)
    \/ /\ NoResponse
       /\ Len(tasks) < MaxTasks
       /\ \E c \in 0..MaxCategories, p \in ViewPriorities, dl \in ViewDeadlines :
              add_task("t", c, p, "Normal", dl)
    \/ NoResponse /\ tasks_view("all", "", Null)
    \/ NoResponse /\ dashboard
    \/ NoResponse /\ stats_urgency

SpecView == Init /\ [][ViewNext]_vars

(***************************************************************************)
(* SpecList: the task list of tasks() over pending and completed tasks.    *)
(* A response is observed once: no request follows it.                     *)
(***************************************************************************)
MaxListed == 3       \* rows of table tasks under SpecList

ListPriorities == {"Low", "High", "Bogus"}
ListDeadlines  == {NoDeadline, Deadline("iso", 0 - 1), Deadline("iso", 0)}

ListNext ==
    \/ /\ NoResponse
       /\ Len(tasks) < MaxListed
       /\ \E title \in {"", "t"}, p \in ListPriorities, dl \in ListDeadlines :
              add_task(title, 0, p, "Normal", dl)
    \/ NoResponse /\ \E r \in Requests, id \in 1..MaxListed : ToggleSelect(r, id)
    \/ NoResponse /\ \E r \in Requests : ToggleUpdate(r)
    \/ /\ NoResponse
       /\ \E st \in {"all", "pending", "completed", "overdue"},
             p \in {"", "High"}, c \in {Null, Val(1)} :
              tasks_view(st, p, c)

SpecList == Init /\ [][ListNext]_vars

(***************************************************************************)
(* Groups and invites.  Each handler runs on its own connection; a SELECT  *)
(* reads the committed tables, and the statements of two handlers          *)
(* interleave.  A handler's writes and its commit are one step: from its   *)
(* first write to its commit it holds the write lock, and no other         *)
(* connection sees the writes before the commit.                           *)
(***************************************************************************)
Users == {1, 2}      \* the accounts of table users

\* SELECT id FROM users WHERE username=?
UserByName(username) == IF username \in Users THEN Val(username) ELSE Null

\* SELECT ... FROM group_members WHERE group_id=? AND user_id=?
MemberRows(group_id, user_id) ==
    {m \in group_members : m.group_id = group_id /\ m.user_id = user_id}

\* SELECT 1 FROM group_invites WHERE group_id=? AND invitee_id=? AND
\* status='pending'
PendingRows(group_id, invitee_id) ==
    {i \in DOMAIN group_invites :
        /\ group_invites[i].group_id = group_id
        /\ group_invites[i].invitee_id = invitee_id
        /\ group_invites[i].status = "pending"}

\* create_group: the group and its owner's admin membership, one commit.
create_group(name, user_id) ==
    /\ ~CheckerHoldsLock
    /\ IF name # ""
       THEN /\ groups' = Append(groups, user_id)
            /\ group_members' = group_members \cup
                   {[group_id |-> Len(groups) + 1, user_id |-> user_id,
                     role |-> "admin"]}
       ELSE UNCHANGED <<groups, group_members>>
    /\ UNCHANGED <<group_invites, inv, act, taskVars>>

\* invite, lines 561-572: the form fields (Null is an empty field) and the
\* SELECT of the caller's role in the group.
InviteSelectMember(r, user_id, group_id, username) ==
    /\ inv[r].pc = "idle"
    /\ inv' = IF username = Null \/ group_id = Null
                THEN inv
              ELSE IF \E m \in MemberRows(group_id[1], user_id) : m.role = "admin"
                THEN [inv EXCEPT ![r] =
                        [IdleInvite EXCEPT !.pc = "user",
                                           !.group_id = group_id[1],
                                           !.user_id = user_id,
                                           !.username = username[1]]]
              ELSE inv
    /\ UNCHANGED <<groups, group_members, group_invites, act, taskVars>>

\* invite, lines 573-575: the SELECT of the invited account.
InviteSelectUser(r) ==
    /\ inv[r].pc = "user"
    /\ LET user == UserByName(inv[r].username)
       IN  inv' = IF user # Null /\ user[1] # inv[r].user_id
                    THEN [inv EXCEPT ![r].pc = "existing", ![r].user = user]
                  ELSE [inv EXCEPT ![r] = IdleInvite]
    /\ UNCHANGED <<groups, group_members, group_invites, act, taskVars>>

\* invite, lines 576-577: is the invited account a member already?
InviteSelectExisting(r) ==
    /\ inv[r].pc = "existing"
    /\ inv' = [inv EXCEPT
                ![r].pc = "pending",
                ![r].existing =
                    Val(MemberRows(inv[r].group_id, inv[r].user[1]) # {})]
    /\ UNCHANGED <<groups, group_members, group_invites, act, taskVars>>

\* invite, lines 579-583: is there a pending invite already?  Then the test
\* of the two answers.
InviteSelectPending(r) ==
    /\ inv[r].pc = "pending"
    /\ LET pending == Val(PendingRows(inv[r].group_id, inv[r].user[1]) # {})
       IN  inv' = IF ~inv[r].existing[1] /\ ~pending[1]
                    THEN [inv EXCEPT ![r].pc = "insert", ![r].pending = pending]
                  ELSE [inv EXCEPT ![r] = IdleInvite]
    /\ UNCHANGED <<groups, group_members, group_invites, act, taskVars>>

\* INSERT INTO group_invites (...): status takes its DEFAULT 'pending'.
NewInvite(group_id, inviter_id, invitee_id) ==
    [group_id |-> group_id, inviter_id |-> inviter_id,
     invitee_id |-> invitee_id, status |-> "pending"]

\* invite, lines 584-586: the INSERT and the commit.
InviteInsert(r) ==
    /\ inv[r].pc = "insert"
    /\ ~CheckerHoldsLock
    /\ group_invites' = Append(group_invites,
            NewInvite(inv[r].group_id, inv[r].user_id, inv[r].user[1]))
    /\ inv' = [inv EXCEPT ![r] = IdleInvite]
    /\ UNCHANGED <<groups, group_members, act, taskVars>>

\* invite_action, lines 593-599 and 603: the SELECT of the invite among the
\* caller's own, and the tests of its status and of the action.  An action
\* that is neither accept nor reject commits nothing.
ActionSelect(r, user_id, invite_id, action) ==
    /\ act[r].pc = "idle"
    /\ LET invite ==
               IF /\ invite_id \in DOMAIN group_invites
                  /\ group_invites[invite_id].invitee_id = user_id
               THEN Val(group_invites[invite_id]) ELSE Null
       IN  act' = IF invite # Null /\ invite[1].status = "pending"
                       /\ action \in {"accept", "reject"}
                    THEN [act EXCEPT ![r] =
                            [pc |-> action, invite_id |-> invite_id,
                             user_id |-> user_id, invite |-> invite]]
                  ELSE act
    /\ UNCHANGED <<groups, group_members, group_invites, inv, taskVars>>

\* UPDATE group_invites SET status=? WHERE id=?
SetStatus(rows, invite_id, status) ==
    [rows EXCEPT ![invite_id].status = status]

\* invite_action, lines 600-602 and 606: the UPDATE, the INSERT of the
\* membership and the commit.  PRIMARY KEY (group_id, user_id): for a
\* member the INSERT raises IntegrityError, the handler ends without a
\* commit and close_db rolls the UPDATE back.
ActionAccept(r) ==
    /\ act[r].pc = "accept"
    /\ ~CheckerHoldsLock
    /\ LET group_id == act[r].invite[1].group_id
           user_id  == act[r].user_id
       IN  IF MemberRows(group_id, user_id) # {}
             THEN UNCHANGED <<group_invites, group_members>>
           ELSE /\ group_invites' =
                       SetStatus(group_invites, act[r].invite_id, "accepted")
                /\ group_members' = group_members \cup
                       {[group_id |-> group_id, user_id |-> user_id,
                         role |-> "member"]}
    /\ act' = [act EXCEPT ![r] = IdleAction]
    /\ UNCHANGED <<groups, inv, taskVars>>

\* invite_action, lines 603-606: the UPDATE and the commit.
ActionReject(r) ==
    /\ act[r].pc = "reject"
    /\ ~CheckerHoldsLock
    /\ group_invites' = SetStatus(group_invites, act[r].invite_id, "rejected")
    /\ act' = [act EXCEPT ![r] = IdleAction]
    /\ UNCHANGED <<groups, group_members, inv, taskVars>>

GroupIds  == {Null} \cup {Val(g) : g \in 1..MaxGroups}
Usernames == {Null, Val(0)} \cup {Val(u) : u \in Users}
Actions   == {"accept", "reject", "leave"}

GroupNext ==
    \/ /\ Len(groups) < MaxGroups
       /\ \E name \in {"", "g"}, u \in Users : create_group(name, u)
    \/ \E r \in InviteRequests, u \in Users, g \in GroupIds, n \in Usernames :
            InviteSelectMember(r, u, g, n)
    \/ \E r \in InviteRequests : InviteSelectUser(r)
    \/ \E r \in InviteRequests : InviteSelectExisting(r)
    \/ \E r \in InviteRequests : InviteSelectPending(r)
    \/ /\ Len(group_invites) < MaxInvites
       /\ \E r \in InviteRequests : InviteInsert(r)
    \/ \E r \in ActionRequests, u \in Users, i \in 1..MaxInvites, a \in Actions :
            ActionSelect(r, u, i, a)
    \/ \E r \in ActionRequests : ActionAccept(r)
    \/ \E r \in ActionRequests : ActionReject(r)

SpecGroup == Init /\ [][GroupNext]_vars

(***************************************************************************)
(* Scorer and sweep on deadlines of every stored form: add_task stores     *)
(* request.form.get('deadline') as it comes                                *)
(***************************************************************************)
AgreeDays == {0, 1, 2}
AgreeDeadlines ==
    {NoDeadline, EmptyDeadline, TextDeadline}
        \cup {Deadline(k, d) : k \in {"iso", "datetime", "loose"}, d \in {0, 1}}

AgreeNext ==
    \/ \E d \in AgreeDays : ClockSet(d, 0)
    \/ /\ Len(tasks) < MaxTasks
       /\ \E dl \in AgreeDeadlines : add_task("t", 0, "Medium", "Normal", dl)
    \/ \E r \in Requests, id \in 1..MaxTasks : ToggleSelect(r, id)
    \/ \E r \in Requests : ToggleUpdate(r)
    \/ \E r \in Requests : ToggleBusy(r)
    \/ CkUpdate1
    \/ CkUpdate2
    \/ CkCommit
    \/ CkFail
    \/ CkSleep

SpecAgree == Init /\ [][AgreeNext]_vars

(***************************************************************************)
(* toggle_task requests handled at the same time, each on its own          *)
(* connection: the SELECT of one may come between the SELECT and the       *)
(* UPDATE of the other                                                     *)
(***************************************************************************)
ToggleNext ==
    \/ /\ Len(tasks) < MaxTasks
       /\ \E dl \in SweepDeadlines : add_task("t", 0, "Medium", "Normal", dl)
    \/ \E r \in RaceRequests, id \in 1..MaxTasks : ToggleSelect(r, id)
    \/ \E r \in RaceRequests : ToggleUpdate(r)

SpecToggle == Init /\ [][ToggleNext]_vars

(***************************************************************************)
(* Steps of overdue_checker, told by what they change                      *)
(***************************************************************************)
Running == {"start", "upd1", "upd2"}

\* The step that commits a cycle.
CommitStep == ck_pc = "upd2" /\ ck_pc' # "upd2" /\ ck_last' \in {"committed", "recovered"}

\* The step that ends a cycle by an exception.
FailStep == ck_pc \in Running /\ ck_pc' \notin Running /\ ~CommitStep

\* A cycle whose two UPDATEs read the same date('now').
OneDate == ck_d1 # Null /\ ck_d1 = ck_d2

\* The deadline date of a row is the date that date(deadline) gives: the
\* row has one when its deadline starts with a zero-padded YYYY-MM-DD.
\* The date is before D, or it is D or later.
HasDate(row)      == row.deadline.kind \in {"iso", "datetime"}
Before(row, D)    == HasDate(row) /\ row.deadline.day < D
NotBefore(row, D) == HasDate(row) /\ row.deadline.day >= D

Committed == ck_pc = "sleep" /\ ck_last \in {"committed", "recovered"}

(***************************************************************************)
(* C1                                                                      *)
(***************************************************************************)
\* C1 as stated: right after a committed sweep run on date D, every stored
\* task, completed or not, has overdue = 1 exactly when it is not completed
\* and its deadline date is before D.
C1_AllTasksConsistent ==
    [][(CommitStep /\ OneDate) =>
        \A i \in DOMAIN tasks' :
            (tasks'[i].overdue = 1) <=>
                (tasks'[i].completed = 0 /\ Before(tasks'[i], ck_d1[1]))]_vars

\* C1 amended: right after a committed sweep whose UPDATEs both read the
\* date D, every task that is not completed has overdue = 1 exactly when
\* date(deadline) is before D, and every completed task has the overdue
\* value it had before the sweep.
C1_PendingConsistent ==
    [][(CommitStep /\ OneDate) =>
        /\ DOMAIN tasks' = DOMAIN tasks
        /\ \A i \in DOMAIN tasks' :
            /\ tasks'[i].completed = 0 =>
                   ((tasks'[i].overdue = 1) <=> Before(tasks'[i], ck_d1[1]))
            /\ tasks'[i].completed = 1 =>
                   tasks'[i].overdue = tasks[i].overdue]_vars

\* After a committed sweep on today's date: a pending task the sweep has
\* marked, a pending task it has left unmarked, and a completed task whose
\* overdue flag is stale.
C1_Witness ==
    /\ Committed /\ OneDate /\ ck_d1 = Val(today)
    /\ \E i, j \in DOMAIN tasks :
        /\ tasks[i].completed = 0 /\ tasks[i].overdue = 1 /\ Before(tasks[i], today)
        /\ tasks[j].completed = 1 /\ tasks[j].overdue = 1

(***************************************************************************)
(* C2                                                                      *)
(***************************************************************************)
\* C2: a committed cycle whose UPDATEs both read the date D sets overdue
\* to 1 on every row that had completed = 0, overdue = 0 and
\* date(deadline) < D, sets it to 0 on every row that had completed = 0,
\* overdue = 1 and date(deadline) >= D, and leaves every pending row that
\* has a deadline with overdue = (date(deadline) < D).
C2_SweepSetsAndClears ==
    [][(CommitStep /\ OneDate) =>
        \A i \in DOMAIN tasks :
            LET old == tasks[i]
                new == tasks'[i]
                D   == ck_d1[1]
            IN  /\ (old.completed = 0 /\ old.overdue = 0 /\ Before(old, D))
                       => new.overdue = 1
                /\ (old.completed = 0 /\ old.overdue = 1 /\ NotBefore(old, D))
                       => new.overdue = 0
                /\ (new.completed = 0 /\ new.deadline # NoDeadline)
                       => ((new.overdue = 1) <=> Before(new, D))]_vars

\* A cycle run on one date has, in its transaction, set the flag of one
\* row and cleared the flag of another, and is about to commit.
C2_Witness ==
    /\ ck_pc = "upd2" /\ OneDate
    /\ \E i, j \in DOMAIN tasks :
        /\ tasks[i].overdue = 0 /\ ck_tx[i].overdue = 1
        /\ tasks[j].overdue = 1 /\ ck_tx[j].overdue = 0

(***************************************************************************)
(* C3                                                                      *)
(***************************************************************************)
\* C3: no statement of a sweep cycle changes a row whose completed flag is
\* set: the row is the same in the cycle's transaction, and the same in
\* the table after the commit as before it.
C3_CompletedUntouched ==
    /\ [][CommitStep =>
            \A i \in DOMAIN tasks :
                tasks[i].completed = 1 => tasks'[i] = tasks[i]]_vars
    /\ [](ck_pc \in {"upd1", "upd2"} =>
            \A i \in DOMAIN tasks :
                tasks[i].completed = 1 => ck_tx[i] = tasks[i])

\* A sweep has committed on today's date and left alone a completed task
\* with a past deadline and overdue = 0, and a completed task with a
\* deadline not yet passed and overdue = 1.
C3_Witness ==
    /\ Committed /\ OneDate /\ ck_d1 = Val(today)
    /\ \E i, j \in DOMAIN tasks :
        /\ tasks[i].completed = 1 /\ tasks[i].overdue = 0 /\ Before(tasks[i], today)
        /\ tasks[j].completed = 1 /\ tasks[j].overdue = 1 /\ NotBefore(tasks[j], today)

(***************************************************************************)
(* C4                                                                      *)
(***************************************************************************)
\* C4: a task without a deadline has overdue = 0 in every state, in the
\* table and in the sweep's open transaction (neither UPDATE selects it).
C4_NoDeadlineNeverOverdue ==
    /\ \A i \in DOMAIN tasks :
          tasks[i].deadline = NoDeadline => tasks[i].overdue = 0
    /\ \A i \in DOMAIN ck_tx :
          ck_tx[i].deadline = NoDeadline => ck_tx[i].overdue = 0

\* A sweep has committed over a pending task without a deadline next to a
\* task it has marked overdue.
C4_Witness ==
    /\ Committed
    /\ \E i, j \in DOMAIN tasks :
        /\ tasks[i].deadline = NoDeadline /\ tasks[i].completed = 0
        /\ tasks[j].overdue = 1

(***************************************************************************)
(* C5                                                                      *)
(***************************************************************************)
\* What a cycle that commits writes: the second UPDATE applied to the
\* first, each on the date it read.
SweepOf(rows) == ClearOverdue(MarkOverdue(rows, ck_d1[1]), ck_d2[1])

\* C5: a cycle that fails, at the opening of the database, at either
\* UPDATE or at the commit, leaves the thread sleeping the interval (it
\* neither ends nor retries at once); the thread is never anywhere but in
\* its loop; and the cycle that follows a failed one commits the writes of
\* a full sweep.
C5_FailureSkipsCycle ==
    /\ [][FailStep => ck_pc' = "sleep"]_vars
    /\ [](ck_pc \in Running \cup {"sleep"})
    /\ [][(CommitStep /\ ck_last = "failed") => tasks' = SweepOf(tasks)]_vars

\* The cycle after a failed one has marked a task in its transaction and
\* is about to commit.
C5_Witness ==
    /\ ck_last = "failed" /\ ck_pc = "upd2"
    /\ \E i \in DOMAIN tasks : tasks[i].overdue = 0 /\ ck_tx[i].overdue = 1

(***************************************************************************)
(* C6 (SpecScore)                                                          *)
(***************************************************************************)
\* The weights and the deadline contribution as C6 states them.
C6_pw == IF "priority" \notin DOMAIN score_arg THEN 1
         ELSE CASE score_arg.priority = "High"   -> 5
                [] score_arg.priority = "Medium" -> 3
                [] score_arg.priority = "Low"    -> 1
                [] OTHER -> 1
C6_rw == IF "risk" \notin DOMAIN score_arg THEN 1
         ELSE CASE score_arg.risk = "Critical"  -> 5
                [] score_arg.risk = "Important" -> 3
                [] score_arg.risk = "Normal"    -> 1
                [] OTHER -> 1
C6_w  == IF "weight" \in DOMAIN score_arg THEN score_arg.weight ELSE 1

\* The deadline is a date that strptime reads: zero-padded or not, with
\* nothing after the day.
C6_Parseable ==
    /\ "deadline" \in DOMAIN score_arg
    /\ score_arg.deadline.kind \in {"iso", "loose"}
C6_d  == score_arg.deadline.day - PyToday
C6_ds == IF ~C6_Parseable THEN 0
         ELSE IF C6_d < 0 THEN 40
         ELSE IF C6_d >= 10 THEN 0
         ELSE (10 - C6_d) * 4

\* C6: calculate_urgency returns 3*pw + 3*rw + 2*w + ds; (High, Critical,
\* 1, today) scores 72 and (Low, Normal, 1, no deadline) scores 8; a
\* deadline 5 days away adds 20, one 11 or more days away adds 0, one that
\* has passed adds 40 however late.
C6_ScoreFormula ==
    score_ret # Null =>
        LET ds == score_ret[1] - 3 * C6_pw - 3 * C6_rw - 2 * C6_w
        IN  /\ score_ret[1] = 3 * C6_pw + 3 * C6_rw + 2 * C6_w + C6_ds
            /\ score_arg = Dict(Val("High"), Val("Critical"), Val(1),
                                Val(Deadline("iso", PyToday)))
                  => score_ret[1] = 72
            /\ score_arg = Dict(Val("Low"), Val("Normal"), Val(1), Val(NoDeadline))
                  => score_ret[1] = 8
            /\ (C6_Parseable /\ C6_d = 5) => ds = 20
            /\ (C6_Parseable /\ C6_d >= 11) => ds = 0
            /\ (C6_Parseable /\ C6_d < 0) => ds = 40

\* The call on a task 30 days late with an unknown priority and no risk
\* key has returned 3 + 3 + 2*3 + 40.
C6_Witness ==
    /\ score_arg = Dict(Val("Urgent"), Null, Val(3), Val(Deadline("iso", PyToday - 30)))
    /\ score_ret = Val(52)

(***************************************************************************)
(* C7 (SpecView)                                                           *)
(***************************************************************************)
\* C7: every score that tasks(), dashboard() and stats_urgency() compute
\* for a stored task is at least 8.
C7_ScoreAtLeastEight ==
    /\ \A k \in DOMAIN task_list : task_list[k].urgency >= 8
    /\ \A k \in DOMAIN urgency_scores : urgency_scores[k] >= 8

(***************************************************************************)
(* C8 (SpecList)                                                           *)
(***************************************************************************)
\* The place of the task with the given id in the query result.
C8_Place(id) == CHOOSE k \in DOMAIN fetched : fetched[k].id = id

\* C8: the list of tasks() holds every fetched task once; the fetched rows
\* are in the order of completed, then deadline; in the list every pending
\* task precedes every completed one, the pending tasks are in
\* non-increasing urgency, and pending tasks of equal urgency are in the
\* order of the query result, so none of them follows a task with a later
\* deadline.
C8_ListOrder ==
    /\ Len(task_list) = Len(fetched)
    /\ \A k \in DOMAIN fetched :
          Cardinality({m \in DOMAIN task_list : task_list[m].id = fetched[k].id}) = 1
    /\ \A i, j \in DOMAIN fetched :
          i < j => ~OrderedBefore(fetched[j], fetched[i])
    /\ \A i, j \in DOMAIN task_list :
          i < j =>
            LET a == task_list[i]
                b == task_list[j]
            IN  /\ ~(a.completed = 1 /\ b.completed = 0)
                /\ (a.completed = 0 /\ b.completed = 0) => a.urgency >= b.urgency
                /\ (a.completed = 0 /\ b.completed = 0 /\ a.urgency = b.urgency)
                      => /\ C8_Place(a.id) < C8_Place(b.id)
                         /\ ~DeadlineBefore(b.deadline, a.deadline)

\* A list in which a pending task precedes a completed task of higher
\* urgency, and two pending tasks of equal urgency stand in the order of
\* their deadlines although the later deadline was added first.
C8_Witness ==
    \E i, j, k \in DOMAIN task_list :
        /\ i < j /\ j < k
        /\ task_list[i].completed = 0 /\ task_list[j].completed = 0
        /\ task_list[i].urgency = task_list[j].urgency
        /\ DeadlineBefore(task_list[i].deadline, task_list[j].deadline)
        /\ task_list[i].id > task_list[j].id
        /\ task_list[k].completed = 1
        /\ task_list[k].urgency > task_list[j].urgency

(***************************************************************************)
(* C9                                                                      *)
(***************************************************************************)
\* C9: only the sweep's commit changes a stored overdue flag.  Any other
\* step leaves every existing row as it was but for completed; a row that
\* add_task inserts has overdue = 0 and completed = 0; and the score of a
\* row is the same whatever its completed and overdue flags are, and
\* scoring leaves the two flags of the row as they are.
C9_OnlySweepWritesOverdue ==
    /\ [][~CommitStep =>
            \A i \in DOMAIN tasks :
                /\ i \in DOMAIN tasks'
                /\ [tasks'[i] EXCEPT !.completed = tasks[i].completed] = tasks[i]]_vars
    /\ [][\A i \in DOMAIN tasks' \ DOMAIN tasks :
            tasks'[i].overdue = 0 /\ tasks'[i].completed = 0]_vars
    /\ [](\A i \in DOMAIN tasks :
            LET row    == RowDict(i)
                scored == Scored(row)
            IN  /\ calculate_urgency([row EXCEPT !.completed = 1 - @])
                      = scored.urgency
                /\ calculate_urgency([row EXCEPT !.overdue = 1 - @])
                      = scored.urgency
                /\ scored.overdue = tasks[i].overdue
                /\ scored.completed = tasks[i].completed)

\* A task that a sweep had marked overdue has been completed by
\* toggle_task and still carries overdue = 1, its deadline unchanged, and
\* a second request is about to set it back to pending.
C9_Witness ==
    \E r \in Requests :
        /\ tg[r].pc = "update" /\ tg[r].new_status = 0
        /\ tasks[tg[r].task_id].completed = 1
        /\ tasks[tg[r].task_id].overdue = 1

(***************************************************************************)
(* C10                                                                     *)
(***************************************************************************)
\* C10 as stated: a cycle that fails after its first UPDATE leaves the
\* effect of that UPDATE in the stored tasks.
C10_FirstWritePersists ==
    [][(FailStep /\ ck_pc \in {"upd1", "upd2"}) =>
            tasks' = MarkOverdue(tasks, ck_d1[1])]_vars

\* C10 amended: the two UPDATEs of a cycle run in one transaction that the
\* commit ends.  From the first UPDATE to the commit the stored tasks do
\* not change and show neither write; a cycle that fails after its first
\* UPDATE leaves them as they were before it; the commit writes both
\* UPDATEs at once.
C10_OneTransaction ==
    /\ [][(ck_pc \in {"upd1", "upd2"} /\ ~CommitStep) => tasks' = tasks]_vars
    /\ [][CommitStep => tasks' = SweepOf(tasks)]_vars

\* A cycle has failed after its first UPDATE had run, and a pending task
\* whose deadline was before the date of that UPDATE is stored with
\* overdue = 0.
C10_Witness ==
    /\ ck_pc = "sleep" /\ ck_last = "failed" /\ ck_d1 = Val(today)
    /\ \E i \in DOMAIN tasks :
        /\ tasks[i].completed = 0 /\ tasks[i].overdue = 0
        /\ Before(tasks[i], today)

(***************************************************************************)
(* C11                                                                     *)
(***************************************************************************)
\* The flags agree with the date D: every task that is not completed and
\* has a deadline has overdue = 1 exactly when date(deadline) is before D.
Consistent(rows, D) ==
    \A i \in DOMAIN rows :
        (rows[i].completed = 0 /\ rows[i].deadline # NoDeadline) =>
            ((rows[i].overdue = 1) <=> Before(rows[i], D))

\* A step of the sweep thread.
CkStep == ck_pc' # ck_pc

\* C11: whatever toggle_task and add_task requests and earlier cycles have
\* left in the table, a cycle that reads today's date and commits leaves
\* the flags in agreement with today; and once they agree with today, and
\* the date stays the same, no step of a later cycle, committed or failed,
\* changes any row, so they agree after every later cycle too.
C11_SelfCorrects ==
    /\ [][(CommitStep /\ OneDate /\ ck_d1 = Val(today)) =>
            Consistent(tasks', today')]_vars
    /\ [][(Consistent(tasks, today) /\ CkStep
              /\ (CommitStep => (OneDate /\ ck_d1 = Val(today)))) =>
            (tasks' = tasks /\ Consistent(tasks', today'))]_vars

\* After an earlier cycle had committed, requests or a change of date left
\* the flags out of agreement with today; a cycle that read today's date
\* has put them in agreement in its transaction and is about to commit.
C11_Witness ==
    /\ ck_pc = "upd2" /\ OneDate /\ ck_d1 = Val(today)
    /\ ck_last \in {"committed", "recovered"}
    /\ ~Consistent(tasks, today) /\ Consistent(ck_tx, today)
    /\ \E i \in DOMAIN tasks :
        /\ tasks[i].completed = 0 /\ tasks[i].overdue = 1
        /\ NotBefore(tasks[i], today) /\ ck_tx[i].overdue = 0

(***************************************************************************)
(* C12                                                                     *)
(***************************************************************************)
\* C12 as stated: right after a committed sweep that read the date D, with
\* calculate_urgency evaluated on the same date (date.today() = D), every
\* pending task that the sweep left with overdue = 1 has the deadline
\* contribution 40, and every pending task whose deadline calculate_urgency
\* takes as passed (days_until < 0) has overdue = 1.
C12_ScorerAndSweepAgree ==
    [][(CommitStep /\ OneDate /\ ck_d1 = Val(today) /\ PyToday = today) =>
        \A i \in DOMAIN tasks' :
            tasks'[i].completed = 0 =>
                /\ tasks'[i].overdue = 1 =>
                       deadline_score(days_until(tasks'[i])) = 40
                /\ days_until(tasks'[i]) < 0 => tasks'[i].overdue = 1]_vars

(***************************************************************************)
(* C13                                                                     *)
(***************************************************************************)
Pending(i) == group_invites[i].status = "pending"

\* The step in which a running invite_action request of user u writes.
ActionWrites(u) ==
    \E r \in ActionRequests :
        /\ act[r].pc \in {"accept", "reject"}
        /\ act[r].user_id = u
        /\ act'[r].pc = "idle"

\* C13 as stated: in every reachable state no two pending invites have the
\* same group and invitee, and no pending invite is for a member of its
\* group; and in every step an invite whose status changes was pending,
\* becomes accepted or rejected, and the step is a write of an
\* invite_action request of its invitee.
C13_InviteInvariants ==
    /\ [](\A i, j \in DOMAIN group_invites :
            (/\ i # j /\ Pending(i) /\ Pending(j)
             /\ group_invites[i].group_id = group_invites[j].group_id)
                => group_invites[i].invitee_id # group_invites[j].invitee_id)
    /\ [](\A i \in DOMAIN group_invites :
            Pending(i) =>
                MemberRows(group_invites[i].group_id,
                           group_invites[i].invitee_id) = {})
    /\ [][\A i \in DOMAIN group_invites :
            group_invites'[i].status # group_invites[i].status =>
                /\ Pending(i)
                /\ group_invites'[i].status \in {"accepted", "rejected"}
                /\ ActionWrites(group_invites[i].invitee_id)]_vars

(***************************************************************************)
(* C14                                                                     *)
(***************************************************************************)
\* The step in which toggle_task request r runs its UPDATE and commits.
ToggleWrites(r) ==
    tg[r].pc = "update" /\ tg'[r].pc = "idle" /\ ~CheckerHoldsLock

\* C14 as stated: the write of every handled toggle_task request leaves
\* the task's completed flag the opposite of what it was just before the
\* write (so that n requests leave the initial value for even n and its
\* opposite for odd n), and completed is 0 or 1 in every state.
C14_EveryToggleFlips ==
    /\ [][\A r \in RaceRequests :
            ToggleWrites(r) =>
                tasks'[tg[r].task_id].completed =
                    1 - tasks[tg[r].task_id].completed]_vars
    /\ [](\A i \in DOMAIN tasks : tasks[i].completed \in {0, 1})

====
